---- MODULE Spec2Model ----
(***************************************************************************)
(* Model of the route-sequencing core of the TARO backend:                 *)
(*   - app/api/router.py : haversine, local_greedy_tsp, two_opt,           *)
(*                         optimize_route, clear_route_cache,              *)
(*                         search_between and its helpers                  *)
(*   - app/core/cache.py : init_cache, get_cached, set_cached, clear_cache *)
(*                                                                         *)
(* Six specifications share the module.   SpecTsp runs local_greedy_tsp    *)
(* and two_opt step by step (one action per loop iteration) on coordinate  *)
(* lists drawn from a small grid.  SpecCache runs the cache functions and  *)
(* the /optimize handler against the route_cache table, SpecStore the      *)
(* cache functions alone.  SpecBetween runs the /search_between handler    *)
(* step by step against small attractions tables.  SpecTspFair is SpecTsp  *)
(* with the fairness of a single thread, SpecGeom applies the two segment   *)
(* functions to points of a small grid.                                    *)
(***************************************************************************)
EXTENDS Integers, Sequences, FiniteSets, TLC

(***************************************************************************)
(* Bounds of the model.                                                    *)
(***************************************************************************)
GridW == 2
MaxN == 5
MaxItersBound == 2

(***************************************************************************)
(* Small helpers.                                                          *)
(***************************************************************************)
Min(x, y) == IF x < y THEN x ELSE y

Range(s) == {s[i] : i \in 1..Len(s)}

RECURSIVE SeqsUpTo(_, _)
SeqsUpTo(S, n) ==
    IF n = 0 THEN {<<>>}
    ELSE LET shorter == SeqsUpTo(S, n - 1)
         IN  shorter \cup {Append(s, x) : s \in {t \in shorter : Len(t) = n - 1}, x \in S}

(***************************************************************************)
(* Coordinates.  A coordinate is a pair <<lat, lon>> of whole metres on a  *)
(* grid of two rows next to (0, 0): at that scale the great-circle         *)
(* distance and the                                                        *)
(* planar distance agree far below a millimetre.  Distances are integers   *)
(* in millimetres (rounded down), so 1e-6 km is exactly 1.                 *)
(***************************************************************************)
Grid == (0..1) \X (0..(GridW - 1))

MmPerMetre == 1000

RECURSIVE ISqrtIn(_, _, _)
ISqrtIn(x, lo, hi) ==
    IF lo >= hi THEN lo
    ELSE LET mid == (lo + hi + 1) \div 2
         IN  IF mid * mid <= x THEN ISqrtIn(x, mid, hi) ELSE ISqrtIn(x, lo, mid - 1)

ISqrt(x) == ISqrtIn(x, 0, Min(x, 46340))

MaxD2 == (GridW - 1) * (GridW - 1) + 1

DistTable == [d2 \in 0..MaxD2 |-> ISqrt(d2 * MmPerMetre * MmPerMetre)]

haversine(a, b) ==
    DistTable[(a[1] - b[1]) * (a[1] - b[1]) + (a[2] - b[2]) * (a[2] - b[2])]

\* float('inf'): larger than every distance
Inf == DistTable[MaxD2] + 1

\* Python's None where an index is expected
None == -1

\* 1e-6 km in millimetres
EPS == 1

(***************************************************************************)
(* local_greedy_tsp.  Indices are 0-based as in the code; a TLA+ sequence  *)
(* s holds the element of index i at s[i + 1].                             *)
(***************************************************************************)
\* InnerScan without `if visited[i]: continue`
RECURSIVE InnerScanNoSkip(_, _, _, _, _, _)
InnerScanNoSkip(cs, vis, last, i, best, bestd) ==
    IF i >= Len(cs) THEN best
    ELSE LET d == haversine(cs[last + 1], cs[i + 1])
         IN  IF d < bestd THEN InnerScanNoSkip(cs, vis, last, i + 1, i, d)
                          ELSE InnerScanNoSkip(cs, vis, last, i + 1, best, bestd)

\* the inner `for i in range(n)` of local_greedy_tsp
RECURSIVE InnerScan(_, _, _, _, _, _)
InnerScan(cs, vis, last, i, best, bestd) ==
    IF i >= Len(cs) THEN best
    ELSE IF vis[i + 1] THEN InnerScan(cs, vis, last, i + 1, best, bestd)
    ELSE LET d == haversine(cs[last + 1], cs[i + 1])
         IN  IF d < bestd THEN InnerScan(cs, vis, last, i + 1, i, d)
                          ELSE InnerScan(cs, vis, last, i + 1, best, bestd)

\* the outer `for _ in range(1, n)`, k iterations left
RECURSIVE GreedyLoop(_, _, _, _)
GreedyLoop(cs, vis, ord, k) ==
    IF k = 0 THEN ord
    ELSE LET best == InnerScan(cs, vis, ord[Len(ord)], 0, None, Inf)
         IN  IF best = None THEN ord
             ELSE GreedyLoop(cs, [vis EXCEPT ![best + 1] = TRUE], Append(ord, best), k - 1)

local_greedy_tsp(cs) ==
    IF cs = <<>> THEN <<>>
    ELSE GreedyLoop(cs, [i \in 1..Len(cs) |-> i = 1], <<0>>, Len(cs) - 1)

(***************************************************************************)
(* two_opt.                                                                *)
(***************************************************************************)
dist(cs, i, j) == haversine(cs[i + 1], cs[j + 1])

\* Delta with the two sums exchanged
DeltaSwapped(ord, cs, a, b) ==
    LET i == ord[a + 1]
        j == ord[a + 2]
        k == ord[b + 1]
        l == ord[b + 2]
    IN  (dist(cs, i, j) + dist(cs, k, l)) - (dist(cs, i, k) + dist(cs, j, l))

\* delta of the pair of tour positions (a, b)
Delta(ord, cs, a, b) ==
    LET i == ord[a + 1]
        j == ord[a + 2]
        k == ord[b + 1]
        l == ord[b + 2]
    IN  (dist(cs, i, k) + dist(cs, j, l)) - (dist(cs, i, j) + dist(cs, k, l))

\* the reversal of order[a_next:b]
ReverseSliceShort(ord, a_next, b) ==
    [p \in 1..Len(ord) |->
        IF p - 1 >= a_next /\ p - 1 <= b - 1 THEN ord[(a_next + b - 1 - (p - 1)) + 1] ELSE ord[p]]

\* the reversal of order[a_next:b+2]
ReverseSliceWide(ord, a_next, b) ==
    [p \in 1..Len(ord) |->
        IF p - 1 >= a_next /\ p - 1 <= b + 1 THEN ord[(a_next + b + 1 - (p - 1)) + 1] ELSE ord[p]]

\* order[a_next:b+1] = list(reversed(order[a_next:b+1]))
ReverseSlice(ord, a_next, b) ==
    [p \in 1..Len(ord) |->
        IF p - 1 >= a_next /\ p - 1 <= b THEN ord[(a_next + b - (p - 1)) + 1] ELSE ord[p]]

NoPair == <<>>

\* the nested loops with `for a in range(1, n - 2)`
RECURSIVE ScanPairsFrom1(_, _, _, _)
ScanPairsFrom1(ord, cs, a, b) ==
    IF a = 0 THEN ScanPairsFrom1(ord, cs, 1, 3)
    ELSE IF a > Len(ord) - 3 THEN NoPair
    ELSE IF b > Len(ord) - 2 THEN ScanPairsFrom1(ord, cs, a + 1, a + 3)
    ELSE IF Delta(ord, cs, a, b) < -EPS THEN <<a, b>>
    ELSE ScanPairsFrom1(ord, cs, a, b + 1)

\* the two nested for loops: the first (a, b) with delta < -1e-6, or NoPair
RECURSIVE ScanPairs(_, _, _, _)
ScanPairs(ord, cs, a, b) ==
    IF a > Len(ord) - 3 THEN NoPair
    ELSE IF b > Len(ord) - 2 THEN ScanPairs(ord, cs, a + 1, a + 3)
    ELSE IF Delta(ord, cs, a, b) < -EPS THEN <<a, b>>
    ELSE ScanPairs(ord, cs, a, b + 1)

\* TwoOptPass without `improved = True`
TwoOptPassNoFlag(ord, cs) ==
    LET p == ScanPairs(ord, cs, 0, 2)
    IN  IF p = NoPair THEN [order |-> ord, improved |-> FALSE]
        ELSE [order |-> ReverseSlice(ord, p[1] + 1, p[2]), improved |-> FALSE]

\* one iteration of the while loop
TwoOptPass(ord, cs) ==
    LET p == ScanPairs(ord, cs, 0, 2)
    IN  IF p = NoPair THEN [order |-> ord, improved |-> FALSE]
        ELSE [order |-> ReverseSlice(ord, p[1] + 1, p[2]), improved |-> TRUE]

RECURSIVE TwoOptLoop(_, _, _, _, _)
TwoOptLoop(ord, cs, imp, it, maxIters) ==
    IF imp /\ it < maxIters
    THEN LET r == TwoOptPass(ord, cs)
         IN  TwoOptLoop(r.order, cs, r.improved, it + 1, maxIters)
    ELSE ord

two_opt(ord, cs, maxIters) ==
    IF Len(ord) < 4 THEN ord ELSE TwoOptLoop(ord, cs, TRUE, 0, maxIters)

\* sum of the distances between consecutive tour elements
RECURSIVE TourLength(_, _)
TourLength(ord, cs) ==
    IF Len(ord) < 2 THEN 0
    ELSE dist(cs, ord[1], ord[2]) + TourLength(Tail(ord), cs)

IsPermutation(ord, n) ==
    /\ Len(ord) = n
    /\ Range(ord) = 0..(n - 1)

(***************************************************************************)
(* Python values and their JSON text.  A value carries its Python type, so *)
(* that json.dumps / json.loads are modelled by what they do to each type. *)
(***************************************************************************)
PyNone == [type |-> "none", val |-> 0]

PyBool(b) == [type |-> "bool", val |-> b]

PyInt(n) == [type |-> "int", val |-> n]

PyStr(x) == [type |-> "str", val |-> x]

PyList(xs) == [type |-> "list", val |-> xs]

PyTuple(xs) == [type |-> "tuple", val |-> xs]

PyDict(d) == [type |-> "dict", val |-> d]

\* `v is not None` in place of bool(v)
TruthyNotNone(v) == v.type # "none"

\* bool(v)
Truthy(v) ==
    CASE v.type = "none" -> FALSE
      [] v.type = "bool" -> v.val
      [] v.type = "int" -> v.val # 0
      [] v.type = "str" -> v.val # ""
      [] v.type \in {"list", "tuple"} -> Len(v.val) # 0
      [] v.type = "dict" -> DOMAIN v.val # {}

\* isinstance(v, dict) and k in v
HasKey(v, k) == v.type = "dict" /\ k \in DOMAIN v.val

\* d.setdefault(k, x); d
SetDefault(d, k, x) ==
    IF k \in DOMAIN d.val THEN d ELSE PyDict(d.val @@ (k :> x))

\* json.dumps(v, separators=(',', ':'), ensure_ascii=False): the JSON text,
\* held as its syntax tree; lists and tuples are both written as arrays
RECURSIVE JsonDumps(_)
JsonDumps(v) ==
    CASE v.type = "none" -> [type |-> "null", val |-> 0]
      [] v.type = "bool" -> [type |-> "boolean", val |-> v.val]
      [] v.type = "int" -> [type |-> "number", val |-> v.val]
      [] v.type = "str" -> [type |-> "string", val |-> v.val]
      [] v.type \in {"list", "tuple"} ->
            [type |-> "array", val |-> [i \in DOMAIN v.val |-> JsonDumps(v.val[i])]]
      [] v.type = "dict" ->
            [type |-> "object", val |-> [k \in DOMAIN v.val |-> JsonDumps(v.val[k])]]

\* json.loads(text): every array comes back as a list
RECURSIVE JsonLoads(_)
JsonLoads(j) ==
    CASE j.type = "null" -> PyNone
      [] j.type = "boolean" -> PyBool(j.val)
      [] j.type = "number" -> PyInt(j.val)
      [] j.type = "string" -> PyStr(j.val)
      [] j.type = "array" -> PyList([i \in DOMAIN j.val |-> JsonLoads(j.val[i])])
      [] j.type = "object" -> PyDict([k \in DOMAIN j.val |-> JsonLoads(j.val[k])])

\* v is built from None, booleans, numbers, strings, lists and dicts only
RECURSIVE IsJsonNative(_)
IsJsonNative(v) ==
    CASE v.type = "tuple" -> FALSE
      [] v.type = "list" -> \A i \in DOMAIN v.val : IsJsonNative(v.val[i])
      [] v.type = "dict" -> \A k \in DOMAIN v.val : IsJsonNative(v.val[k])
      [] OTHER -> TRUE

(***************************************************************************)
(* The route_cache table (app/core/cache.py).  The table is a set of rows  *)
(* [key, result_json, source]; the ts column is never read and is left out.*)
(***************************************************************************)
\* INSERT without the primary key on `key`
InsertPlain(rs, row) == rs \cup {row}

\* INSERT OR IGNORE
InsertOrIgnore(rs, row) ==
    IF \E r \in rs : r.key = row.key THEN rs ELSE rs \cup {row}

\* an insert that evicts the rows of the other keys
InsertEvicting(rs, row) == {row}

\* INSERT OR REPLACE INTO route_cache(key, result_json, source), key PRIMARY KEY
InsertOrReplace(rs, row) == {r \in rs : r.key # row.key} \cup {row}

\* a SELECT whose WHERE clause matches no row
SelectNothing(rs, k) == {}

\* SELECT result_json, source FROM route_cache WHERE key = ?
SelectByKey(rs, k) == {r \in rs : r.key = k}

get_cached(rs, k) ==
    LET found == SelectByKey(rs, k)
    IN  IF found = {} THEN PyNone
        ELSE JsonLoads((CHOOSE r \in found : TRUE).result_json)

set_cached(rs, k, result, source) ==
    InsertOrReplace(rs, [key |-> k, result_json |-> JsonDumps(result), source |-> source])

\* COUNT(1) that misses one row
CountRowsShort(rs) == IF rs = {} THEN 0 ELSE Cardinality(rs) - 1

\* SELECT COUNT(1) as cnt FROM route_cache
CountRows(rs) == Cardinality(rs)

\* DELETE that leaves one row behind
DeleteKeepsOne(rs) == IF rs = {} THEN {} ELSE {CHOOSE r \in rs : TRUE}

\* DELETE FROM route_cache
DeleteAll(rs) == {}

(***************************************************************************)
(* The /optimize handler (optimize_route).                                 *)
(***************************************************************************)
Ids == {"a", "b"}

\* order of the ids as strings
IdRank == [a |-> 1, b |-> 2]

MaxIds == 2
MaxOps == 2

\* the values GOOGLE_MAX_WAYPOINTS takes (the default is 23)
Caps == {0, 1, 2}

\* the points the attractions of the point store lie on
P1 == <<0, 0>>

P2 == <<0, 1>>

\* an endpoint a request may name
EndPoint == <<1, 1>>

\* Attraction objects: an id that is not in the table, a row without lat/lon,
\* or a row with a coordinate
NoCoord == <<>>

Missing == [present |-> FALSE, coord |-> NoCoord]

WithoutCoord == [present |-> TRUE, coord |-> NoCoord]

At(c) == [present |-> TRUE, coord |-> c]

\* the attractions tables of the model: two coordinates, one shared
\* coordinate, a row without coordinate, an id that is not in the table
DbChoices ==
    {[a |-> At(P1), b |-> At(P2)],
     [a |-> At(P1), b |-> At(P1)],
     [a |-> At(P1), b |-> WithoutCoord],
     [a |-> WithoutCoord, b |-> Missing]}

\* the endpoints of a request: none, or both
EndsChoices ==
    {[departure |-> <<>>, arrival |-> <<>>], [departure |-> EndPoint, arrival |-> EndPoint]}

\* OptimizeRequest
Requests ==
    [attraction_ids : SeqsUpTo(Ids, MaxIds),
     departure : {<<>>, EndPoint},
     arrival : {<<>>, EndPoint}]

NoReq == [attraction_ids |-> <<>>, departure |-> <<>>, arrival |-> <<>>]

\* f"{c[0]},{c[1]}" of a pair of floats: the text is determined by, and
\* determines, the first two elements
FmtPair(c) == <<c[1], c[2]>>

\* sorted(ids)
RECURSIVE InsertSorted(_, _)
InsertSorted(x, sorted) ==
    IF sorted = <<>> THEN <<x>>
    ELSE IF IdRank[x] <= IdRank[Head(sorted)] THEN <<x>> \o sorted
    ELSE <<Head(sorted)>> \o InsertSorted(x, Tail(sorted))

RECURSIVE Sorted(_)
Sorted(ids) ==
    IF ids = <<>> THEN <<>> ELSE InsertSorted(Head(ids), Sorted(Tail(ids)))

\* make_cache_key without sorted()
make_cache_key_unsorted(attraction_ids, departure, arrival) ==
    [dep |-> IF departure # <<>> THEN FmtPair(departure) ELSE <<>>,
     arr |-> IF arrival # <<>> THEN FmtPair(arrival) ELSE <<>>,
     ids |-> attraction_ids]

\* f"opt:dep={dep}:arr={arr}:ids={ids_part}", held as its three parts
make_cache_key(attraction_ids, departure, arrival) ==
    [dep |-> IF departure # <<>> THEN FmtPair(departure) ELSE <<>>,
     arr |-> IF arrival # <<>> THEN FmtPair(arrival) ELSE <<>>,
     ids |-> Sorted(attraction_ids)]

\* a.__dict__ : the fields the handler depends on (id, lat, lon); the other
\* fields are copied from the row unchanged
AttractionDict(database, id) ==
    LET c == database[id].coord
    IN  PyDict([id |-> PyStr(id),
                lat |-> IF c = NoCoord THEN PyNone ELSE PyInt(c[1]),
                lon |-> IF c = NoCoord THEN PyNone ELSE PyInt(c[2])])

\* attractions: the requested ids found in the table, in request order
FoundAttractions(database, ids) == SelectSeq(ids, LAMBDA id : database[id].present)

\* DedupeCoords that takes (0, 0) for an attraction without lat/lon
RECURSIVE DedupeCoordsDefault(_, _, _)
DedupeCoordsDefault(database, attractions, acc) ==
    IF attractions = <<>> THEN acc
    ELSE LET a == Head(attractions)
             c == IF database[a].coord = NoCoord THEN P1 ELSE database[a].coord
         IN  IF FmtPair(c) \in acc.seen THEN DedupeCoordsDefault(database, Tail(attractions), acc)
             ELSE DedupeCoordsDefault(database, Tail(attractions),
                    [seen |-> acc.seen \cup {FmtPair(c)},
                     coords |-> Append(acc.coords, c),
                     map |-> acc.map @@ (FmtPair(c) :> a)])

\* DedupeCoords that maps a coordinate to the last attraction seen on it
RECURSIVE DedupeCoordsLast(_, _, _)
DedupeCoordsLast(database, attractions, acc) ==
    IF attractions = <<>> THEN acc
    ELSE LET a == Head(attractions)
             c == database[a].coord
         IN  IF c = NoCoord THEN DedupeCoordsLast(database, Tail(attractions), acc)
             ELSE IF FmtPair(c) \in acc.seen
             THEN DedupeCoordsLast(database, Tail(attractions),
                    [acc EXCEPT !.map = [acc.map EXCEPT ![FmtPair(c)] = a]])
             ELSE DedupeCoordsLast(database, Tail(attractions),
                    [seen |-> acc.seen \cup {FmtPair(c)},
                     coords |-> Append(acc.coords, c),
                     map |-> acc.map @@ (FmtPair(c) :> a)])

\* the loop over attractions that fills coords and coord_to_attraction_map;
\* acc = [seen, coords, map]
RECURSIVE DedupeCoords(_, _, _)
DedupeCoords(database, attractions, acc) ==
    IF attractions = <<>> THEN acc
    ELSE LET a == Head(attractions)
             c == database[a].coord
         IN  IF c = NoCoord THEN DedupeCoords(database, Tail(attractions), acc)
             ELSE IF FmtPair(c) \in acc.seen THEN DedupeCoords(database, Tail(attractions), acc)
             ELSE DedupeCoords(database, Tail(attractions),
                    [seen |-> acc.seen \cup {FmtPair(c)},
                     coords |-> Append(acc.coords, c),
                     map |-> acc.map @@ (FmtPair(c) :> a)])

\* the handler without the check of line 541
PlaceholderNeverStale(cached, n, cap) == FALSE

\* isinstance(cached, dict) and 'prepared_request' in cached
\*     and len(coords) > MAX_WAYPOINTS
PlaceholderStale(cached, n, cap) == HasKey(cached, "prepared_request") /\ n > cap

\* len(x) >= MAX_WAYPOINTS instead of >
OverCapOffByOne(n, cap) == n >= cap

\* len(waypoint_strs) > MAX_WAYPOINTS
OverCap(n, cap) == n > cap

\* the max_iters the handler passes to two_opt
LocalMaxIters == 2000

\* s[1:] and s[:-1] on a possibly empty list
DropFirst(xs) == IF xs = <<>> THEN <<>> ELSE Tail(xs)

DropLast(xs) == IF xs = <<>> THEN <<>> ELSE SubSeq(xs, 1, Len(xs) - 1)

\* the intermediate slice of a list: both ends are kept when the request
\* names the endpoint, dropped otherwise
Intermediate(xs, req) ==
    LET a == IF req.departure # <<>> THEN xs ELSE DropFirst(xs)
    IN  IF req.arrival # <<>> THEN a ELSE DropLast(a)

Perms(m) == {q \in [1..m -> 0..(m - 1)] : Range(q) = 0..(m - 1)}

\* what the directions provider may answer for m intermediate waypoints
ProviderOutcomes(m) ==
    {[kind |-> "fail", order |-> <<>>], [kind |-> "noroutes", order |-> <<>>]}
        \cup {[kind |-> "ok", order |-> q] : q \in Perms(m)}

HttpError(code, key) ==
    [status |-> code, body |-> PyNone, path |-> "error", key |-> key,
     heuristic |-> FALSE, external |-> FALSE, wrote |-> FALSE, source |-> "",
     ignored_cached |-> FALSE]

\* a failing provider call answered as an internal error
InternalError(key, ignored) ==
    [status |-> 500, body |-> PyNone, path |-> "google", key |-> key,
     heuristic |-> FALSE, external |-> TRUE, wrote |-> FALSE, source |-> "",
     ignored_cached |-> ignored]

\* lines 604-608: raise HTTPException(status_code=502) after the provider call
BadGateway(key, ignored) ==
    [status |-> 502, body |-> PyNone, path |-> "google", key |-> key,
     heuristic |-> FALSE, external |-> TRUE, wrote |-> FALSE, source |-> "",
     ignored_cached |-> ignored]

\* lines 553-570: the local heuristic and its result
LocalResult(database, coords, map) ==
    LET ord == two_opt(local_greedy_tsp(coords), coords, LocalMaxIters)
        ordered_attractions == [p \in 1..Len(ord) |-> map[FmtPair(coords[ord[p] + 1])]]
    IN  PyDict([mock |-> PyBool(TRUE),
                local_optimization |-> PyBool(TRUE),
                orderedAttractions |->
                    PyList([p \in 1..Len(ord) |-> AttractionDict(database, ordered_attractions[p])]),
                count |-> PyInt(Len(ordered_attractions)),
                note |-> PyStr("Local greedy TSP used")])

\* lines 576-596: the request prepared for the directions provider
Prepared(req, waypoint_strs, api_key) ==
    LET origin_str == IF req.departure # <<>> THEN FmtPair(req.departure) ELSE Head(waypoint_strs)
        destination_str ==
            IF req.arrival # <<>> THEN FmtPair(req.arrival) ELSE waypoint_strs[Len(waypoint_strs)]
        intermediate_strs == Intermediate(waypoint_strs, req)
    IN  PyDict([url |-> PyStr("https://maps.googleapis.com/maps/api/directions/json"),
                params |-> PyDict([origin |-> PyStr(origin_str),
                                   destination |-> PyStr(destination_str),
                                   waypoints |-> PyStr(intermediate_strs),
                                   key |-> PyStr(IF api_key THEN "key" ELSE "")]),
                note |-> PyStr("forwarded if GOOGLE_MAPS_API_KEY is set")])

\* lines 609-626: res_json with orderedAttractions added
GoogleResult(database, req, attractions, prov) ==
    LET dicts == [p \in 1..Len(attractions) |-> AttractionDict(database, attractions[p])]
    IN  IF prov.kind = "ok" /\ prov.order # <<>>
        THEN LET intermediate_attractions == Intermediate(dicts, req)
                 ordered_waypoints ==
                     [p \in 1..Len(prov.order) |-> intermediate_attractions[prov.order[p] + 1]]
                 final_ordered_list ==
                     (IF req.departure = <<>> THEN <<dicts[1]>> ELSE <<>>)
                         \o ordered_waypoints
                         \o (IF req.arrival = <<>> THEN <<dicts[Len(dicts)]>> ELSE <<>>)
             IN  PyDict([routes |-> PyList(<<PyDict([waypoint_order |->
                                PyList([p \in 1..Len(prov.order) |-> PyInt(prov.order[p])])])>>),
                         orderedAttractions |-> PyList(final_ordered_list)])
        ELSE PyDict([routes |->
                        IF prov.kind = "ok"
                        THEN PyList(<<PyDict([waypoint_order |-> PyList(<<>>)])>>)
                        ELSE PyList(<<>>),
                     orderedAttractions |-> PyList(dicts)])

\* lines 535-539: get_cached raises when the table is missing, and the
\* handler goes on with cached = None
CachedOrNone(rs, tableOk, k) == IF tableOk THEN get_cached(rs, k) ELSE PyNone

\* a set_cached that creates the missing table
StoredAnyway(rs, tableOk, k, result, source) == set_cached(rs, k, result, source)

\* lines 571-574, 599-602, 627-630: set_cached raises when the table is
\* missing, the handler logs it and goes on
StoredOrSkipped(rs, tableOk, k, result, source) ==
    IF tableOk THEN set_cached(rs, k, result, source) ELSE rs

\* the whole handler: the response and the table it leaves
\*   rs       the rows of route_cache
\*   tableOk  the route_cache table exists (otherwise get/set_cached raise)
\*   environ  [api_key, max_waypoints] as read from the environment
\*   prov     the provider's answer, used only if the provider is called
optimize_route(database, environ, rs, tableOk, req, prov) ==
    LET attractions == FoundAttractions(database, req.attraction_ids)
        cache_key == make_cache_key(req.attraction_ids, req.departure, req.arrival)
        dd == DedupeCoords(database, attractions, [seen |-> {}, coords |-> <<>>, map |-> <<>>])
        crds == dd.coords
        waypoint_strs == [p \in 1..Len(crds) |-> FmtPair(crds[p])]
        MAX_WAYPOINTS == environ.max_waypoints
        cached == CachedOrNone(rs, tableOk, cache_key)
        \* line 542 is reached: a cached placeholder is passed over
        ignored == Truthy(cached) /\ PlaceholderStale(cached, Len(crds), MAX_WAYPOINTS)
        stored(result, src) == StoredOrSkipped(rs, tableOk, cache_key, result, src)
    IN  IF attractions = <<>> THEN [resp |-> HttpError(404, cache_key), rows |-> rs]
        ELSE IF crds = <<>> THEN [resp |-> HttpError(400, cache_key), rows |-> rs]
        ELSE IF Truthy(cached) /\ ~PlaceholderStale(cached, Len(crds), MAX_WAYPOINTS)
        THEN [resp |-> [status |-> 200,
                        body |-> IF cached.type = "dict"
                                 THEN SetDefault(cached, "source", PyStr("cache"))
                                 ELSE PyDict([status |-> PyStr("ok"),
                                              source |-> PyStr("cache"),
                                              result |-> cached]),
                        path |-> "cache", key |-> cache_key,
                        heuristic |-> FALSE, external |-> FALSE, wrote |-> FALSE,
                        source |-> "", ignored_cached |-> FALSE],
              rows |-> rs]
        ELSE IF OverCap(Len(waypoint_strs), MAX_WAYPOINTS)
        THEN LET result == LocalResult(database, crds, dd.map)
             IN  [resp |-> [status |-> 200, body |-> result, path |-> "local",
                            key |-> cache_key,
                            heuristic |-> TRUE, external |-> FALSE, wrote |-> tableOk,
                            source |-> "local", ignored_cached |-> ignored],
                  rows |-> stored(result, "local")]
        ELSE IF ~environ.api_key
        THEN LET result == PyDict([mock |-> PyBool(TRUE),
                                   prepared_request |-> Prepared(req, waypoint_strs, FALSE),
                                   count |-> PyInt(Len(attractions))])
             IN  [resp |-> [status |-> 200, body |-> result, path |-> "mock",
                            key |-> cache_key,
                            heuristic |-> FALSE, external |-> FALSE, wrote |-> tableOk,
                            source |-> "mock", ignored_cached |-> ignored],
                  rows |-> stored(result, "mock")]
        ELSE IF prov.kind = "fail"
        THEN [resp |-> BadGateway(cache_key, ignored), rows |-> rs]
        ELSE LET res_json == GoogleResult(database, req, attractions, prov)
             IN  [resp |-> [status |-> 200, body |-> res_json, path |-> "google",
                            key |-> cache_key,
                            heuristic |-> FALSE, external |-> TRUE, wrote |-> tableOk,
                            source |-> "google", ignored_cached |-> ignored],
                  rows |-> stored(res_json, "google")]

(***************************************************************************)
(* The /search_between handler (search_between) and its helpers.           *)
(* Coordinates of the corridor are pairs <<lat, lon>> of whole kilometres  *)
(* in the local plane anchored at the start of the segment (at this scale  *)
(* the cosine factor of to_xy is 1).  A route fraction and a squared       *)
(* distance are exact fractions <<numerator, denominator>>.                *)
(***************************************************************************)
MaxLimit == 3

\* side of the grid of SpecGeom, in km
GeomMax == 3

\* BetweenRequest.radius_km = 5.0 and `req.radius_km or 5.0`
DefaultRadiusKm == 5

\* BetweenRequest.limit = 10 and `req.limit or 10`
DefaultLimit == 10

\* the two points the addresses of the model resolve to
SegA == <<0, 0>>

SegB == <<0, 4>>

\* address strings: empty, blank, two "lat,lon" literals and a place name
Addresses == {"", "  ", "0,0", "0,4", "paris"}

\* str.strip() on the address strings
StripAddr == [x \in Addresses |-> IF x = "  " THEN "" ELSE x]

\* the fast path of geocode_address: the strings that split into two floats
LiteralCoord == ("0,0" :> SegA) @@ ("0,4" :> SegB)

\* what the geocoding service may answer for a place name
GeoFail == <<>>

GeoOutcomes == {GeoFail, SegB}

\* geocode_address(address): [ok, coord, called] where called tells whether
\* the geocoding service was asked
geocode_address(address, geo) ==
    IF address \in DOMAIN LiteralCoord
    THEN [ok |-> TRUE, coord |-> LiteralCoord[address], called |-> FALSE]
    ELSE [ok |-> geo # GeoFail, coord |-> geo, called |-> TRUE]

\* the rows of the attractions table the corridor search reads:
\*   coord     <<lat, lon>> or NoCoord (lat / lon NULL)
\*   wkt       <<lon, lat>> of a POINT geometry, or <<>>
\*   category  the category column ("" when unset), tourism an OSM tag
Row(id, coord, wkt, category, tourism, name) ==
    [id |-> id, coord |-> coord, wkt |-> wkt, category |-> category,
     tourism |-> tourism, name |-> name]

RowPark == Row("a", <<0, 1>>, <<>>, "Park", "", "")

RowMuseum == Row("b", NoCoord, <<2, 0>>, "Museum", "", "art")

RowOther == Row("c", <<3, 4>>, <<>>, "", "", "city park")

RowFar == Row("d", <<6, 2>>, <<>>, "Park", "", "far park")

RowZoo == Row("a", <<0, 3>>, <<>>, "", "zoo", "")

RowNoCoord == Row("e", NoCoord, <<>>, "Museum", "", "")

\* the tables of the model, in the order SELECT * returns the rows
StoreChoices ==
    {<<>>,
     <<RowPark>>,
     <<RowPark, RowOther>>,
     <<RowPark, RowMuseum, RowOther, RowFar>>,
     <<RowFar, RowNoCoord, RowMuseum>>,
     <<RowPark, RowZoo, RowMuseum>>}

parse_coord_from_row(row) ==
    IF row.coord # NoCoord THEN row.coord
    ELSE IF row.wkt # <<>> THEN <<row.wkt[2], row.wkt[1]>>
    ELSE NoCoord

\* to_xy of a point, relative to to_xy of the anchor a
to_xy(pt, a) == <<pt[2] - a[2], pt[1] - a[1]>>

\* t used as it is
ClampNone(lo, x, hi) == x

\* max(0.0, t)
ClampLow(lo, x, hi) == IF x < lo THEN lo ELSE x

\* max(0.0, min(1.0, t))
Clamp(lo, x, hi) == IF x < lo THEN lo ELSE IF x > hi THEN hi ELSE x

\* _projection_fraction: t = n / vlen2 with n clamped to [0, vlen2]
projection_fraction(p, a, b) ==
    LET v == to_xy(b, a)
        w == to_xy(p, a)
        vlen2 == v[1] * v[1] + v[2] * v[2]
    IN  IF vlen2 = 0 THEN <<0, 1>>
        ELSE <<Clamp(0, w[1] * v[1] + w[2] * v[2], vlen2), vlen2>>

\* _point_segment_distance_km, squared
point_segment_distance2(p, a, b) ==
    LET v == to_xy(b, a)
        w == to_xy(p, a)
        vlen2 == v[1] * v[1] + v[2] * v[2]
        n == Clamp(0, w[1] * v[1] + w[2] * v[2], vlen2)
        dx == vlen2 * w[1] - n * v[1]
        dy == vlen2 * w[2] - n * v[2]
    IN  IF vlen2 = 0 THEN <<w[1] * w[1] + w[2] * w[2], 1>>
        ELSE <<dx * dx + dy * dy, vlen2 * vlen2>>

\* dist_km <= radius, on the squared distance
DistLeq(d2, radius) == radius >= 0 /\ d2[1] <= radius * radius * d2[2]

\* value.replace('_', ' ').title() on the tags of the model
TitleOf == [zoo |-> "Zoo"]

get_best_category(row) ==
    IF row.category # "" THEN row.category
    ELSE IF row.tourism # "" THEN TitleOf[row.tourism]
    ELSE "Other"

\* order of the category strings
CatRank == [Museum |-> 1, Other |-> 2, Park |-> 3, Zoo |-> 4]

\* str.lower() on the category strings
LowerOf == [Museum |-> "museum", Other |-> "other", Park |-> "park", Zoo |-> "zoo"]

\* c.strip().lower() on the strings a request lists as categories
StripLowerOf == ("park" :> "park") @@ ("Museum " :> "museum") @@ (" " :> "")

\* `token in name_part` on the tokens and names of the model
TokenInName(token, name) == token = "park" /\ name \in {"city park", "far park"}

CategoryChoices == {<<>>, <<"park">>, <<"Museum ">>, <<" ">>}

\* requested_tokens
RequestedTokens(cats) ==
    LET toks == [i \in DOMAIN cats |-> StripLowerOf[cats[i]]]
    IN  SelectSeq(toks, LAMBDA x : x # "")

\* lines 687-698: 1 when no token is requested or a token matches
Score(tokens, best_cat, name) ==
    IF tokens = <<>> THEN 1
    ELSE IF \E i \in DOMAIN tokens :
                tokens[i] = LowerOf[best_cat] \/ TokenInName(tokens[i], name)
         THEN 1 ELSE 0

\* t1 <= t2 on fractions
FracLeq(t1, t2) == t1[1] * t2[2] <= t2[1] * t1[2]

\* lines 673-703: the candidates (score, t, dist_km, r) in table order; the
\* row of a candidate carries its best category
RECURSIVE Candidates(_, _, _, _, _)
Candidates(rs, a, b, radius, tokens) ==
    IF rs = <<>> THEN <<>>
    ELSE LET r == Head(rs)
             rest == Candidates(Tail(rs), a, b, radius, tokens)
             coord == parse_coord_from_row(r)
         IN  IF coord = NoCoord THEN rest
             ELSE LET d2 == point_segment_distance2(coord, a, b)
                      best_cat == get_best_category(r)
                      score == Score(tokens, best_cat, r.name)
                  IN  IF DistLeq(d2, radius) /\ score > 0
                      THEN <<[score |-> score,
                              t |-> projection_fraction(coord, a, b),
                              dist2 |-> d2,
                              r |-> [r EXCEPT !.category = best_cat]]>> \o rest
                      ELSE rest

\* sort key that leaves the category out
KeyLeqByT(x, y) == FracLeq(x.t, y.t)

\* key(x) <= key(y) for key = (category, t)
KeyLeq(x, y) ==
    \/ CatRank[x.r.category] < CatRank[y.r.category]
    \/ /\ x.r.category = y.r.category
       /\ FracLeq(x.t, y.t)

\* list.sort is stable: x goes after the elements whose key is <= its key
RECURSIVE InsertByKey(_, _)
InsertByKey(x, sorted) ==
    IF sorted = <<>> THEN <<x>>
    ELSE IF KeyLeq(Head(sorted), x) THEN <<Head(sorted)>> \o InsertByKey(x, Tail(sorted))
    ELSE <<x>> \o sorted

RECURSIVE SortCandidates(_, _)
SortCandidates(cands, acc) ==
    IF cands = <<>> THEN acc
    ELSE SortCandidates(Tail(cands), InsertByKey(Head(cands), acc))

\* the id of a row whose id column is NULL
NoId == ""

\* _dedupe_rows_by_id without `if rid in seen: continue`
RECURSIVE dedupe_rows_null_only(_, _)
dedupe_rows_null_only(rs, seen) ==
    IF rs = <<>> THEN <<>>
    ELSE IF Head(rs).id = NoId THEN dedupe_rows_null_only(Tail(rs), seen)
    ELSE <<Head(rs)>> \o dedupe_rows_null_only(Tail(rs), seen)

\* _dedupe_rows_by_id: rows without an id and repeats of an id are dropped
RECURSIVE dedupe_rows_by_id(_, _)
dedupe_rows_by_id(rs, seen) ==
    IF rs = <<>> THEN <<>>
    ELSE LET rid == Head(rs).id
         IN  IF rid = NoId \/ rid \in seen THEN dedupe_rows_by_id(Tail(rs), seen)
             ELSE <<Head(rs)>> \o dedupe_rows_by_id(Tail(rs), seen \cup {rid})

\* xs[:n + 1]
PrefixOneMore(xs, n) == SubSeq(xs, 1, Min(n + 1, Len(xs)))

\* xs[:n] for n >= 0
Prefix(xs, n) == SubSeq(xs, 1, Min(n, Len(xs)))

\* `req.radius_km or 5.0`
RadiusOf(req) == IF Truthy(req.radius_km) THEN req.radius_km.val ELSE DefaultRadiusKm

\* `int(req.limit or 10)`
LimitOf(req) == IF Truthy(req.limit) THEN req.limit.val ELSE DefaultLimit

\* BetweenRequest
BetweenRequests ==
    [start : Addresses,
     end : Addresses,
     radius_km : {PyNone, PyInt(0), PyInt(1), PyInt(4)},
     limit : {PyNone} \cup {PyInt(n) : n \in (-1)..MaxLimit},
     categories : CategoryChoices,
     trashed_ids : {<<>>, <<"a">>}]

NoBetweenReq ==
    [start |-> "", end |-> "", radius_km |-> PyNone, limit |-> PyNone,
     categories |-> <<>>, trashed_ids |-> <<>>]

\* rows_ordered: lines 667-710 on the rows read from the table
RowsOrdered(rs, req, a, b) ==
    LET kept == SelectSeq(rs, LAMBDA r : r.id \notin Range(req.trashed_ids))
        cands == Candidates(kept, a, b, RadiusOf(req), RequestedTokens(req.categories))
        sorted == SortCandidates(cands, <<>>)
    IN  dedupe_rows_by_id([i \in DOMAIN sorted |-> sorted[i].r], {})

\* lines 712-718: the body of the answer
BetweenBody(rs, req, a, b) ==
    LET rows_ordered == RowsOrdered(rs, req, a, b)
        limit_n == LimitOf(req)
        selected_rows == Prefix(rows_ordered, limit_n)
    IN  IF limit_n <= 0
        THEN [status |-> 200, count |-> 0, rows |-> <<>>, start |-> a, end |-> b]
        ELSE [status |-> 200, count |-> Len(selected_rows), rows |-> selected_rows,
              start |-> a, end |-> b]

BetweenError(code) ==
    [status |-> code, count |-> 0, rows |-> <<>>, start |-> <<>>, end |-> <<>>]

NoBetweenResp == BetweenError(0)

(***************************************************************************)
(* State of the step-by-step run of the two functions (SpecTsp).           *)
(***************************************************************************)
VARIABLES
    coords,      \* the coordinate list
    order,       \* the tour being built / improved
    visited,     \* local_greedy_tsp's visited flags
    improved,    \* two_opt's flag
    iters,       \* two_opt's pass counter
    max_iters,   \* two_opt's parameter
    pc,          \* where the run is
    run,         \* 1: first call of two_opt, 2: two_opt called on its own output
    in_order,    \* the tour two_opt was called with
    first_out,   \* what the first call of two_opt returned
    first_capped \* the first call stopped at max_iters with improved still set

(***************************************************************************)
(* State of the cache and of the service (SpecCache).                      *)
(***************************************************************************)
VARIABLES
    db,           \* the attractions table: id -> [present, coord]
    env,          \* [api_key, max_waypoints]: GOOGLE_MAPS_API_KEY set or not,
                  \* GOOGLE_MAX_WAYPOINTS
    table_exists, \* the route_cache table has been created
    rows,         \* the rows of route_cache
    ends,         \* the departure and arrival the client sends with its requests
    resp,         \* the outcome of the last call that returned
    clear_pc,     \* where a running clear_cache is: "idle" or "counted"
    before,       \* clear_cache's local `before`
    nops,         \* number of calls made so far that write
    last_set,     \* history: per key, the last set_cached since the last clear
    at_call       \* history: number of rows when the running clear_cache began

(***************************************************************************)
(* State of the corridor search (SpecBetween).                             *)
(***************************************************************************)
VARIABLES
    store,         \* the attractions table as SELECT * returns it
    sb_req,        \* the BetweenRequest being handled
    sb_pc,         \* where search_between is
    a_coord,       \* search_between's a_coord
    b_coord,       \* search_between's b_coord
    sb_rows,       \* search_between's rows
    sb_resp,       \* the answer of the last search_between that returned
    geocode_calls, \* calls of geocode_address made for the request
    store_reads    \* SELECTs on the attractions table made for the request

VARIABLES
    g_p, g_q, g_a, g_b, g_pc, g_dist, g_t, g_tq

geomVars == <<g_p, g_q, g_a, g_b, g_pc, g_dist, g_t, g_tq>>

betweenVars ==
    <<store, sb_req, sb_pc, a_coord, b_coord, sb_rows, sb_resp, geocode_calls, store_reads>>

cacheVars ==
    <<db, env, ends, table_exists, rows, resp, clear_pc, before, nops, last_set, at_call>>

tspVars ==
    <<coords, order, visited, improved, iters, max_iters, pc, run, in_order, first_out, first_capped>>

vars == <<tspVars, cacheVars, betweenVars, geomVars>>

Identity(n) == [i \in 1..n |-> i - 1]

NoKey == make_cache_key(<<>>, <<>>, <<>>)

NoResp ==
    [op |-> "none", status |-> 0, body |-> PyNone, path |-> "", key |-> NoKey,
     heuristic |-> FALSE, external |-> FALSE, wrote |-> FALSE, source |-> "",
     ignored_cached |-> FALSE, req |-> NoReq]

\* the cache side at rest, for the runs of SpecTsp
CacheIdle ==
    /\ db = [i \in Ids |-> Missing]
    /\ env = [api_key |-> FALSE, max_waypoints |-> 1]
    /\ ends = [departure |-> <<>>, arrival |-> <<>>]
    /\ table_exists = FALSE
    /\ rows = {}
    /\ resp = NoResp
    /\ clear_pc = "idle"
    /\ before = 0
    /\ nops = 0
    /\ last_set = <<>>
    /\ at_call = 0

\* the tour side at rest, for the runs of SpecCache
TspIdle ==
    /\ coords = <<>>
    /\ order = <<>>
    /\ visited = <<>>
    /\ improved = FALSE
    /\ iters = 0
    /\ max_iters = 1
    /\ pc = "idle"
    /\ run = 0
    /\ in_order = <<>>
    /\ first_out = <<>>
    /\ first_capped = FALSE

\* no fraction computed yet
NoFrac == <<>>

\* the segment functions at rest, for the runs of the other specifications
GeomIdle ==
    /\ g_p = <<0, 0>>
    /\ g_q = <<0, 0>>
    /\ g_a = <<0, 0>>
    /\ g_b = <<0, 0>>
    /\ g_pc = "idle"
    /\ g_dist = NoFrac
    /\ g_t = NoFrac
    /\ g_tq = NoFrac

\* the corridor side at rest, for the runs of the other specifications
BetweenIdle ==
    /\ store = <<>>
    /\ sb_req = NoBetweenReq
    /\ sb_pc = "idle"
    /\ a_coord = <<>>
    /\ b_coord = <<>>
    /\ sb_rows = <<>>
    /\ sb_resp = NoBetweenResp
    /\ geocode_calls = 0
    /\ store_reads = 0

TspInit ==
    /\ CacheIdle
    /\ BetweenIdle
    /\ GeomIdle
    /\ coords \in SeqsUpTo(Grid, MaxN)
    /\ order = <<>>
    /\ visited = <<>>
    /\ improved = FALSE
    /\ iters = 0
    /\ max_iters \in 1..MaxItersBound
    /\ pc = "start"
    /\ run = 0
    /\ in_order = <<>>
    /\ first_out = <<>>
    /\ first_capped = FALSE

\* local_greedy_tsp up to the loop
GreedyBegin ==
    /\ pc = "start"
    /\ IF coords = <<>>
       THEN /\ order' = <<>>
            /\ visited' = <<>>
            /\ pc' = "greedy_done"
       ELSE /\ order' = <<0>>
            /\ visited' = [i \in 1..Len(coords) |-> i = 1]
            /\ pc' = "greedy"
    /\ UNCHANGED <<coords, improved, iters, max_iters, run, in_order, first_out, first_capped, cacheVars, betweenVars, geomVars>>

\* one iteration of the outer loop of local_greedy_tsp
GreedyStep ==
    /\ pc = "greedy"
    /\ IF Len(order) >= Len(coords)
       THEN /\ pc' = "greedy_done"
            /\ UNCHANGED <<order, visited>>
       ELSE LET best == InnerScan(coords, visited, order[Len(order)], 0, None, Inf)
            IN  IF best = None
                THEN /\ pc' = "greedy_done"
                     /\ UNCHANGED <<order, visited>>
                ELSE /\ order' = Append(order, best)
                     /\ visited' = [visited EXCEPT ![best + 1] = TRUE]
                     /\ pc' = "greedy"
    /\ UNCHANGED <<coords, improved, iters, max_iters, run, in_order, first_out, first_capped, cacheVars, betweenVars, geomVars>>

\* the tours two_opt is called with directly: the list order, and for up to
\* four points every visiting order
DirectTours(n) ==
    IF n >= 1 /\ n <= 4 THEN {q \in [1..n -> 0..(n - 1)] : Range(q) = 0..(n - 1)}
    ELSE {Identity(n)}

\* two_opt called directly on a tour
DirectTour ==
    /\ pc = "start"
    /\ order' \in DirectTours(Len(coords))
    /\ visited' = <<>>
    /\ pc' = "direct"
    /\ UNCHANGED <<coords, improved, iters, max_iters, run, in_order, first_out, first_capped, cacheVars, betweenVars, geomVars>>

\* two_opt up to the while loop
TwoOptBegin ==
    /\ pc \in {"greedy_done", "direct", "returned"}
    /\ run < 2
    /\ run' = run + 1
    /\ in_order' = order
    /\ IF Len(order) < 4
       THEN /\ pc' = "returned"
            /\ first_out' = IF run = 0 THEN order ELSE first_out
            /\ UNCHANGED <<improved, iters, first_capped>>
       ELSE /\ pc' = "two_opt"
            /\ improved' = TRUE
            /\ iters' = 0
            /\ UNCHANGED <<first_out, first_capped>>
    /\ UNCHANGED <<coords, order, visited, max_iters, cacheVars, betweenVars, geomVars>>

\* one pass of the while loop of two_opt
TwoOptPassStep ==
    /\ pc = "two_opt"
    /\ improved /\ iters < max_iters
    /\ LET r == TwoOptPass(order, coords)
       IN  /\ order' = r.order
           /\ improved' = r.improved
    /\ iters' = iters + 1
    /\ UNCHANGED <<coords, visited, max_iters, pc, run, in_order, first_out, first_capped, cacheVars, betweenVars, geomVars>>

\* the while condition fails: return order
TwoOptReturn ==
    /\ pc = "two_opt"
    /\ ~(improved /\ iters < max_iters)
    /\ pc' = "returned"
    /\ first_out' = IF run = 1 THEN order ELSE first_out
    /\ first_capped' = IF run = 1 THEN improved ELSE first_capped
    /\ UNCHANGED <<coords, order, visited, improved, iters, max_iters, run, in_order, cacheVars, betweenVars, geomVars>>

TspNext ==
    \/ GreedyBegin
    \/ GreedyStep
    \/ DirectTour
    \/ TwoOptBegin
    \/ TwoOptPassStep
    \/ TwoOptReturn

SpecTsp == TspInit /\ [][TspNext]_vars

\* two_opt runs in one thread: a pass or the return that can be taken is taken
SpecTspFair == SpecTsp /\ WF_vars(TwoOptPassStep) /\ WF_vars(TwoOptReturn)

(***************************************************************************)
(* SpecCache: the cache functions and the handlers, called in any order.   *)
(***************************************************************************)
\* keys and payloads of the direct calls of set_cached / get_cached
DirectKeys == {make_cache_key(<<i>>, <<>>, <<>>) : i \in Ids} \cup {make_cache_key(<<>>, <<>>, <<>>)}

DirectPayloads ==
    {PyDict([ordered |-> PyList(<<PyInt(1), PyInt(2)>>), meta |-> PyStr("ok")]),
     PyDict([ordered |-> PyTuple(<<PyInt(1), PyInt(2)>>), meta |-> PyStr("ok")]),
     PyList(<<PyInt(1)>>),
     PyDict(<<>>)}

\* "local" is the default of set_cached's source parameter
DirectSources == {"unit", "local"}

CacheInit ==
    /\ TspIdle
    /\ BetweenIdle
    /\ GeomIdle
    /\ db \in DbChoices
    /\ env \in [api_key : BOOLEAN, max_waypoints : Caps]
    /\ ends \in EndsChoices
    /\ table_exists = FALSE
    /\ rows = {}
    /\ resp = NoResp
    /\ clear_pc = "idle"
    /\ before = 0
    /\ nops = 0
    /\ last_set = <<>>
    /\ at_call = 0

\* the history of set_cached calls, kept beside the table
Recorded(hist, k, payload, source, req, byHandler) ==
    [x \in DOMAIN hist \cup {k} |->
        IF x = k
        THEN [payload |-> payload, source |-> source, req |-> req, by_handler |-> byHandler,
              n |-> IF k \in DOMAIN hist THEN hist[k].n + 1 ELSE 1]
        ELSE hist[x]]

\* init_cache()
InitCache ==
    /\ ~table_exists
    /\ table_exists' = TRUE
    /\ UNCHANGED <<db, env, ends, rows, resp, clear_pc, before, nops, last_set, at_call, tspVars, betweenVars, geomVars>>

\* the service is run with another environment
Configure ==
    /\ \E e \in [api_key : BOOLEAN, max_waypoints : Caps] :
          /\ e # env
          /\ env' = e
    /\ UNCHANGED <<db, ends, table_exists, rows, resp, clear_pc, before, nops, last_set, at_call, tspVars, betweenVars, geomVars>>

\* get_cached(k), called directly; it raises when the table is missing
GetCachedCall ==
    /\ \E k \in DirectKeys :
          resp' = [NoResp EXCEPT !.op = "get",
                                 !.key = k,
                                 !.status = IF table_exists THEN 200 ELSE 500,
                                 !.body = IF table_exists THEN get_cached(rows, k) ELSE PyNone]
    /\ UNCHANGED <<db, env, ends, table_exists, rows, clear_pc, before, nops, last_set, at_call, tspVars, betweenVars, geomVars>>

\* set_cached(k, v, source), called directly
SetCachedCall ==
    /\ nops < MaxOps
    /\ nops' = nops + 1
    /\ \E k \in DirectKeys, v \in DirectPayloads, src \in DirectSources :
          /\ resp' = [NoResp EXCEPT !.op = "set",
                                    !.key = k,
                                    !.status = IF table_exists THEN 200 ELSE 500,
                                    !.wrote = table_exists,
                                    !.source = src]
          /\ rows' = IF table_exists THEN set_cached(rows, k, v, src) ELSE rows
          /\ last_set' = IF table_exists THEN Recorded(last_set, k, v, src, NoReq, FALSE) ELSE last_set
    /\ UNCHANGED <<db, env, ends, table_exists, clear_pc, before, at_call, tspVars, betweenVars, geomVars>>

\* clear_route_cache / clear_cache up to and including the COUNT query
ClearCount ==
    /\ clear_pc = "idle"
    /\ nops < MaxOps
    /\ nops' = nops + 1
    /\ IF table_exists
       THEN /\ before' = CountRows(rows)
            /\ at_call' = Cardinality(rows)
            /\ clear_pc' = "counted"
            /\ UNCHANGED resp
       ELSE /\ resp' = [NoResp EXCEPT !.op = "clear", !.status = 500]
            /\ UNCHANGED <<before, at_call, clear_pc>>
    /\ UNCHANGED <<db, env, ends, table_exists, rows, last_set, tspVars, betweenVars, geomVars>>

\* clear_cache from the DELETE on, and the endpoint's answer
ClearDelete ==
    /\ clear_pc = "counted"
    /\ rows' = DeleteAll(rows)
    /\ last_set' = <<>>
    /\ clear_pc' = "idle"
    /\ resp' = [NoResp EXCEPT !.op = "clear",
                              !.status = 200,
                              !.body = PyDict([status |-> PyStr("ok"), cleared |-> PyInt(before)])]
    /\ UNCHANGED <<db, env, ends, table_exists, before, nops, at_call, tspVars, betweenVars, geomVars>>

\* POST /api/optimize
Optimize ==
    /\ nops < MaxOps
    /\ nops' = nops + 1
    /\ \E req \in {r \in Requests : r.departure = ends.departure /\ r.arrival = ends.arrival} :
          LET found == FoundAttractions(db, req.attraction_ids)
              crds == DedupeCoords(db, found, [seen |-> {}, coords |-> <<>>, map |-> <<>>]).coords
          IN  \E prov \in ProviderOutcomes(Len(Intermediate(crds, req))) :
                 LET o == optimize_route(db, env, rows, table_exists, req, prov)
                 IN  /\ resp' = [op |-> "optimize", status |-> o.resp.status,
                                 body |-> o.resp.body, path |-> o.resp.path,
                                 key |-> o.resp.key, heuristic |-> o.resp.heuristic,
                                 external |-> o.resp.external, wrote |-> o.resp.wrote,
                                 source |-> o.resp.source,
                                 ignored_cached |-> o.resp.ignored_cached, req |-> req]
                     /\ rows' = o.rows
                     /\ last_set' = IF o.resp.wrote
                                    THEN Recorded(last_set, o.resp.key, o.resp.body,
                                                  o.resp.source, req, TRUE)
                                    ELSE last_set
    /\ UNCHANGED <<db, env, ends, table_exists, clear_pc, before, at_call, tspVars, betweenVars, geomVars>>

CacheNext ==
    \/ InitCache
    \/ Configure
    \/ GetCachedCall
    \/ SetCachedCall
    \/ ClearCount
    \/ ClearDelete
    \/ Optimize

SpecCache == CacheInit /\ [][CacheNext]_vars

(***************************************************************************)
(* SpecStore: the functions of app/core/cache.py alone, called directly.   *)
(***************************************************************************)
StoreInit ==
    /\ TspIdle
    /\ CacheIdle
    /\ BetweenIdle
    /\ GeomIdle

StoreNext ==
    \/ InitCache
    \/ GetCachedCall
    \/ SetCachedCall
    \/ ClearCount
    \/ ClearDelete

SpecStore == StoreInit /\ [][StoreNext]_vars

(***************************************************************************)
(* SpecBetween: POST /api/search_between, one action per step of the       *)
(* handler.                                                                *)
(***************************************************************************)
BetweenInit ==
    /\ TspIdle
    /\ CacheIdle
    /\ GeomIdle
    /\ store \in StoreChoices
    /\ sb_req = NoBetweenReq
    /\ sb_pc = "idle"
    /\ a_coord = <<>>
    /\ b_coord = <<>>
    /\ sb_rows = <<>>
    /\ sb_resp = NoBetweenResp
    /\ geocode_calls = 0
    /\ store_reads = 0

\* a request arrives
SbRequest ==
    /\ sb_pc = "idle"
    /\ sb_req' \in BetweenRequests
    /\ sb_pc' = "validate"
    /\ UNCHANGED <<store, a_coord, b_coord, sb_rows, sb_resp, geocode_calls, store_reads,
                   tspVars, cacheVars, geomVars>>

\* `not x` without the strip()
BlankNoStrip(x) == x = ""

\* `not x.strip()`
Blank(x) == StripAddr[x] = ""

\* lines 646-649: the checks of start and end
SbValidate ==
    /\ sb_pc = "validate"
    /\ IF Blank(sb_req.start) \/ Blank(sb_req.end)
       THEN /\ sb_resp' = BetweenError(400)
            /\ sb_pc' = "done"
       ELSE /\ sb_pc' = "geocode_start"
            /\ UNCHANGED sb_resp
    /\ UNCHANGED <<store, sb_req, a_coord, b_coord, sb_rows, geocode_calls, store_reads,
                   tspVars, cacheVars, geomVars>>

\* line 651: a_coord = geocode_address(req.start)
SbGeocodeStart ==
    /\ sb_pc = "geocode_start"
    /\ geocode_calls' = geocode_calls + 1
    /\ \E geo \in GeoOutcomes :
          LET g == geocode_address(sb_req.start, geo)
          IN  IF g.ok
              THEN /\ a_coord' = g.coord
                   /\ sb_pc' = "geocode_end"
                   /\ UNCHANGED sb_resp
              ELSE /\ sb_resp' = BetweenError(400)
                   /\ sb_pc' = "done"
                   /\ UNCHANGED a_coord
    /\ UNCHANGED <<store, sb_req, b_coord, sb_rows, store_reads, tspVars, cacheVars, geomVars>>

\* line 652: b_coord = geocode_address(req.end)
SbGeocodeEnd ==
    /\ sb_pc = "geocode_end"
    /\ geocode_calls' = geocode_calls + 1
    /\ \E geo \in GeoOutcomes :
          LET g == geocode_address(sb_req.end, geo)
          IN  IF g.ok
              THEN /\ b_coord' = g.coord
                   /\ sb_pc' = "read"
                   /\ UNCHANGED sb_resp
              ELSE /\ sb_resp' = BetweenError(400)
                   /\ sb_pc' = "done"
                   /\ UNCHANGED b_coord
    /\ UNCHANGED <<store, sb_req, a_coord, sb_rows, store_reads, tspVars, cacheVars, geomVars>>

\* lines 656-662: SELECT * FROM attractions
SbReadStore ==
    /\ sb_pc = "read"
    /\ store_reads' = store_reads + 1
    /\ sb_rows' = store
    /\ sb_pc' = "select"
    /\ UNCHANGED <<store, sb_req, a_coord, b_coord, sb_resp, geocode_calls, tspVars, cacheVars, geomVars>>

\* lines 664-718: filter, score, sort, dedupe, cut to the limit, answer
SbSelect ==
    /\ sb_pc = "select"
    /\ sb_resp' = BetweenBody(sb_rows, sb_req, a_coord, b_coord)
    /\ sb_pc' = "done"
    /\ UNCHANGED <<store, sb_req, a_coord, b_coord, sb_rows, geocode_calls, store_reads,
                   tspVars, cacheVars, geomVars>>

\* the answer has been sent: the locals of the call are gone
SbReturn ==
    /\ sb_pc = "done"
    /\ sb_pc' = "idle"
    /\ sb_req' = NoBetweenReq
    /\ a_coord' = <<>>
    /\ b_coord' = <<>>
    /\ sb_rows' = <<>>
    /\ sb_resp' = NoBetweenResp
    /\ geocode_calls' = 0
    /\ store_reads' = 0
    /\ UNCHANGED <<store, tspVars, cacheVars, geomVars>>

BetweenNext ==
    \/ SbRequest
    \/ SbValidate
    \/ SbGeocodeStart
    \/ SbGeocodeEnd
    \/ SbReadStore
    \/ SbSelect
    \/ SbReturn

SpecBetween == BetweenInit /\ [][BetweenNext]_vars

(***************************************************************************)
(* _point_segment_distance_km and _projection_fraction on their own: the   *)
(* points p and q and the segment a-b are drawn from a grid of whole       *)
(* kilometres in the local plane anchored at a.                            *)
(***************************************************************************)
GeomGrid == (0..GeomMax) \X (0..GeomMax)

GeomInit ==
    /\ TspIdle
    /\ CacheIdle
    /\ BetweenIdle
    /\ g_p \in GeomGrid
    /\ g_q \in GeomGrid
    /\ g_a \in GeomGrid
    /\ g_b \in GeomGrid
    /\ g_pc = "start"
    /\ g_dist = NoFrac
    /\ g_t = NoFrac
    /\ g_tq = NoFrac

\* _point_segment_distance_km(p, a, b)
MeasureDistance ==
    /\ g_pc = "start"
    /\ g_dist' = point_segment_distance2(g_p, g_a, g_b)
    /\ g_pc' = "measured"
    /\ UNCHANGED <<g_p, g_q, g_a, g_b, g_t, g_tq, tspVars, cacheVars, betweenVars>>

\* _projection_fraction(p, a, b) and _projection_fraction(q, a, b)
ProjectPoints ==
    /\ g_pc = "measured"
    /\ g_t' = projection_fraction(g_p, g_a, g_b)
    /\ g_tq' = projection_fraction(g_q, g_a, g_b)
    /\ g_pc' = "projected"
    /\ UNCHANGED <<g_p, g_q, g_a, g_b, g_dist, tspVars, cacheVars, betweenVars>>

GeomNext ==
    \/ MeasureDistance
    \/ ProjectPoints

SpecGeom == GeomInit /\ [][GeomNext]_vars

(***************************************************************************)
(* Claims about the cache functions (checked under SpecStore).             *)
(***************************************************************************)

\* C5 as stated: get_cached(k) returns the payload of the last set_cached on
\* k (no set on k and no clear since), whatever the payload.
C5_Original ==
    (resp.op = "get" /\ resp.status = 200 /\ resp.key \in DOMAIN last_set)
        => resp.body = last_set[resp.key].payload

\* C5 (amended): get_cached(k) returns the payload of the last set_cached on
\* k unchanged (no set on k and no clear since) when the payload is built
\* from dicts, lists, strings, numbers, booleans and None only.
C5_RoundTripOfJsonValues ==
    (/\ resp.op = "get"
     /\ resp.status = 200
     /\ resp.key \in DOMAIN last_set
     /\ IsJsonNative(last_set[resp.key].payload))
        => resp.body = last_set[resp.key].payload

\* a get has returned a non-empty dict that was set before
C5_Witness ==
    /\ resp.op = "get"
    /\ resp.status = 200
    /\ resp.key \in DOMAIN last_set
    /\ IsJsonNative(last_set[resp.key].payload)
    /\ HasKey(resp.body, "ordered")

\* C6: clear_cache returns the number of rows the table held when it was
\* called and leaves the table empty, the endpoint reports that number as
\* 'cleared', and a get_cached on a key not set since the clear misses.
C6_ClearReturnsCount ==
    /\ (resp.op = "clear" /\ resp.status = 200 /\ clear_pc = "idle")
          => /\ resp.body = PyDict([status |-> PyStr("ok"), cleared |-> PyInt(at_call)])
             /\ rows = {}
    /\ (resp.op = "get" /\ resp.status = 200 /\ resp.key \notin DOMAIN last_set)
          => resp.body = PyNone

\* a clear of a non-empty table has returned
C6_Witness ==
    /\ resp.op = "clear"
    /\ resp.status = 200
    /\ clear_pc = "idle"
    /\ at_call >= 1

\* C7: the table holds at most one row per key, and the row of a key holds
\* the payload and the source tag of the last set_cached for that key.
C7_FullUpsert ==
    /\ \A r1 \in rows, r2 \in rows : r1.key = r2.key => r1 = r2
    /\ \A r \in rows :
          /\ r.key \in DOMAIN last_set
          /\ r.result_json = JsonDumps(last_set[r.key].payload)
          /\ r.source = last_set[r.key].source

\* a key has been set a second time
C7_Witness ==
    \E r \in rows :
        /\ r.key \in DOMAIN last_set
        /\ last_set[r.key].n >= 2

(***************************************************************************)
(* Claims about optimize_route (checked under SpecCache).                  *)
(***************************************************************************)
\* the step is a call of the /optimize handler
IsOptimizeStep ==
    /\ nops' = nops + 1
    /\ clear_pc' = clear_pc
    /\ resp'.op = "optimize"

\* number of distinct usable coordinates among the requested attractions
NDistinctCoords(database, ids) ==
    Cardinality({database[i].coord :
                    i \in {x \in Range(ids) : database[x].present /\ database[x].coord # NoCoord}})

IsLocalResult(body, n) ==
    /\ HasKey(body, "mock")
    /\ HasKey(body, "local_optimization")
    /\ HasKey(body, "orderedAttractions")
    /\ body.val.mock = PyBool(TRUE)
    /\ body.val.local_optimization = PyBool(TRUE)
    /\ body.val.count = PyInt(n)
    /\ Len(body.val.orderedAttractions.val) = n

\* C1: a request that is not answered from the cache runs the local
\* heuristic iff its number of distinct usable coordinates exceeds
\* MAX_WAYPOINTS; within the cap the answer comes from the placeholder or the
\* provider path, above it the answer has mock and local_optimization true.
C1_HeuristicIffOverCap ==
    [][(IsOptimizeStep /\ resp'.path # "cache") =>
          LET n == NDistinctCoords(db, resp'.req.attraction_ids)
          IN  /\ resp'.heuristic <=> n > env.max_waypoints
              /\ (n >= 1 /\ n <= env.max_waypoints) =>
                    /\ resp'.path \in {"mock", "google"}
                    /\ resp'.path = "mock" <=> ~resp'.external
              /\ n > env.max_waypoints =>
                    /\ resp'.status = 200
                    /\ resp'.path = "local"
                    /\ IsLocalResult(resp'.body, n)]_vars

\* the heuristic has run for a request over the cap
C1_Witness ==
    /\ resp.op = "optimize"
    /\ resp.heuristic
    /\ resp.path = "local"
    /\ NDistinctCoords(db, resp.req.attraction_ids) = 2

\* the table holds a placeholder under key k
HoldsPlaceholder(rs, k) ==
    \E r \in rs : r.key = k /\ HasKey(JsonLoads(r.result_json), "prepared_request")

\* C8: when the table holds a placeholder for the request's key and the
\* request has more distinct coordinates than MAX_WAYPOINTS, the handler
\* runs the local heuristic, returns its result and replaces the entry by
\* that result with source 'local'.
C8_StalePlaceholderIsAMiss ==
    [][(/\ IsOptimizeStep
        /\ table_exists
        /\ HoldsPlaceholder(rows, resp'.key)
        /\ NDistinctCoords(db, resp'.req.attraction_ids) > env.max_waypoints) =>
          /\ resp'.status = 200
          /\ resp'.heuristic
          /\ ~resp'.external
          /\ IsLocalResult(resp'.body, NDistinctCoords(db, resp'.req.attraction_ids))
          /\ \A r \in rows' :
                r.key = resp'.key =>
                    /\ r.source = "local"
                    /\ JsonLoads(r.result_json) = resp'.body
          /\ \E r \in rows' : r.key = resp'.key]_vars

\* a cached placeholder has been passed over and replaced by a local result
C8_Witness ==
    /\ resp.op = "optimize"
    /\ resp.ignored_cached
    /\ resp.path = "local"
    /\ \E r \in rows : r.key = resp.key /\ r.source = "local"

SameEndpoints(r1, r2) == r1.departure = r2.departure /\ r1.arrival = r2.arrival

SameIdSet(r1, r2) == Range(r1.attraction_ids) = Range(r2.attraction_ids)

Occurrences(i, ids) == Cardinality({p \in 1..Len(ids) : ids[p] = i})

SameIdBag(r1, r2) ==
    \A i \in Ids : Occurrences(i, r1.attraction_ids) = Occurrences(i, r2.attraction_ids)

\* the entry under k was written by a sequencing request, and the handler's
\* validation does not pass it over for a request with n coordinates
UsableEntryOf(k, n) ==
    /\ k \in DOMAIN last_set
    /\ last_set[k].by_handler
    /\ \E r \in rows : r.key = k
    /\ n >= 1
    /\ ~(HoldsPlaceholder(rows, k) /\ n > env.max_waypoints)

\* C9 as stated: a request with the same set of ids and the same endpoints
\* as the request that wrote an entry has that entry's key and is answered
\* from it.
C9_Original ==
    [][\A k \in DOMAIN last_set :
          (/\ IsOptimizeStep
           /\ table_exists
           /\ UsableEntryOf(k, NDistinctCoords(db, resp'.req.attraction_ids))
           /\ SameIdSet(last_set[k].req, resp'.req)
           /\ SameEndpoints(last_set[k].req, resp'.req)) =>
              /\ resp'.key = k
              /\ resp'.path = "cache"]_vars

\* C9 (amended): a request with the same ids, each as many times, in any
\* order, and the same endpoints as the request that wrote an entry has that
\* entry's key and is answered from it (unless the entry is a placeholder
\* that the validation policy passes over).
C9_SameBagSameKey ==
    [][\A k \in DOMAIN last_set :
          (/\ IsOptimizeStep
           /\ table_exists
           /\ UsableEntryOf(k, NDistinctCoords(db, resp'.req.attraction_ids))
           /\ SameIdBag(last_set[k].req, resp'.req)
           /\ SameEndpoints(last_set[k].req, resp'.req)) =>
              /\ resp'.key = k
              /\ resp'.path = "cache"
              /\ resp'.status = 200
              /\ \E r \in rows :
                    /\ r.key = k
                    /\ resp'.body = SetDefault(JsonLoads(r.result_json), "source", PyStr("cache"))
              /\ rows' = rows]_vars

\* a request is answered from the entry that a request listing the same ids
\* in another order wrote
C9_Witness ==
    /\ resp.op = "optimize"
    /\ resp.path = "cache"
    /\ resp.key \in DOMAIN last_set
    /\ last_set[resp.key].by_handler
    /\ last_set[resp.key].req.attraction_ids # resp.req.attraction_ids
    /\ SameIdBag(last_set[resp.key].req, resp.req)

\* no requested id is in the table, or none of those that are has a coordinate
NoUsableInput(database, ids) ==
    \A p \in 1..Len(ids) : ~database[ids[p]].present \/ database[ids[p]].coord = NoCoord

\* C10: a request whose ids resolve to no attraction, or to attractions
\* without coordinates, is answered with 404 or 400 and never with a success,
\* whatever the table holds; it leaves the table as it is.
C10_NoUsableInputIsAnError ==
    [][(IsOptimizeStep /\ NoUsableInput(db, resp'.req.attraction_ids)) =>
          /\ resp'.status \in {404, 400}
          /\ ~resp'.heuristic
          /\ ~resp'.external
          /\ rows' = rows]_vars

\* such a request has been refused although the table holds a usable entry
\* under its key
C10_Witness ==
    /\ resp.op = "optimize"
    /\ resp.status \in {404, 400}
    /\ NoUsableInput(db, resp.req.attraction_ids)
    /\ \E r \in rows : r.key = resp.key /\ Truthy(JsonLoads(r.result_json))

(***************************************************************************)
(* Claims about local_greedy_tsp and two_opt (checked under SpecTsp).      *)
(***************************************************************************)

\* C2: local_greedy_tsp returns, for a non-empty coordinate list of length
\* n, a permutation of 0..n-1 that starts with index 0, and the empty tour
\* for the empty list.
C2_GreedyPermutation ==
    pc = "greedy_done" =>
        IF coords = <<>> THEN order = <<>>
        ELSE IsPermutation(order, Len(coords)) /\ order[1] = 0

\* a finished greedy tour of at least three stops that is not the list order
C2_Witness ==
    /\ pc = "greedy_done"
    /\ Len(coords) >= 3
    /\ order # Identity(Len(coords))

\* C3: no pass of two_opt's while loop makes the tour longer, and the tour
\* two_opt returns is never longer than the tour it was called with.
C3_LengthNeverIncreases ==
    [][/\ (pc = "two_opt" /\ pc' = "two_opt")
            => TourLength(order', coords') <= TourLength(order, coords)
       /\ pc' = "returned"
            => TourLength(order', coords') <= TourLength(in_order', coords')]_vars

\* a pass has reversed a slice and the tour got strictly shorter
C3_Witness ==
    /\ pc = "two_opt"
    /\ iters >= 1
    /\ improved
    /\ TourLength(order, coords) < TourLength(in_order, coords)

\* C4 as stated: two_opt applied to its own output never changes it.
C4_Original ==
    (pc = "returned" /\ run = 2) => order = first_out

\* C4 (amended): two_opt applied to its own output does not change it,
\* provided the first call ended on a pass that found no improving pair
\* (and not because it had made max_iters passes).
C4_FixedPointUnlessCapped ==
    (pc = "returned" /\ run = 2 /\ ~first_capped) => order = first_out

\* the second call has returned, after a first call that did move something
\* and ended on a pass without improvement
C4_Witness ==
    /\ pc = "returned"
    /\ run = 2
    /\ ~first_capped
    /\ Len(coords) >= 4
    /\ first_out \notin {Identity(Len(coords)), local_greedy_tsp(coords)}

(***************************************************************************)
(* Claims about search_between (checked under SpecBetween).                *)
(***************************************************************************)
\* a search has run to its answer
SearchAnswered == sb_pc = "done" /\ store_reads = 1 /\ sb_resp.status = 200

\* the rows of the table that are corridor candidates of the request: not
\* excluded, with a coordinate within the radius of the segment
CorridorRows ==
    SelectSeq(store,
        LAMBDA r : /\ r.id \notin Range(sb_req.trashed_ids)
                   /\ parse_coord_from_row(r) # NoCoord
                   /\ DistLeq(point_segment_distance2(parse_coord_from_row(r), a_coord, b_coord),
                              RadiusOf(sb_req)))

\* the category score of a row for the request: 1 when no category is asked
\* for or when a token equals the row's category or occurs in its name
MatchScore(r) ==
    LET toks == {StripLowerOf[sb_req.categories[i]] : i \in DOMAIN sb_req.categories} \ {""}
    IN  IF toks = {} THEN 1
        ELSE IF \E tk \in toks :
                    tk = LowerOf[get_best_category(r)] \/ TokenInName(tk, r.name)
             THEN 1 ELSE 0

IdsOf(rs) == {rs[i].id : i \in DOMAIN rs}

TOf(r) == projection_fraction(parse_coord_from_row(r), a_coord, b_coord)

\* |t - 1/2| in units of 1 / (2 * denominator); every t of one request has
\* the same denominator
DevFromMiddle(r) ==
    LET x == 2 * TOf(r)[1] - TOf(r)[2]
    IN  IF x < 0 THEN -x ELSE x

DistinctIds(rs) == \A i \in DOMAIN rs, j \in DOMAIN rs : rs[i].id = rs[j].id => i = j

\* the request names a radius other than 0 and a limit other than 0
PlainRadiusAndLimit == sb_req.radius_km # PyInt(0) /\ sb_req.limit # PyInt(0)

\* C11 as stated: when the limit is at least the number of corridor
\* candidates, the answer holds every candidate exactly once, in order of
\* non-decreasing t, whatever the candidates' category scores.
C11_Original ==
    (/\ SearchAnswered
     /\ PlainRadiusAndLimit
     /\ LimitOf(sb_req) >= Len(CorridorRows)) =>
        /\ IdsOf(sb_resp.rows) = IdsOf(CorridorRows)
        /\ DistinctIds(sb_resp.rows)
        /\ \A i \in DOMAIN sb_resp.rows, j \in DOMAIN sb_resp.rows :
              i < j => FracLeq(TOf(sb_resp.rows[i]), TOf(sb_resp.rows[j]))

\* C11 (amended): when the limit is at least the number of corridor
\* candidates, the answer holds one row for every id among the candidates
\* whose category score is 1 and no other row (a candidate of score 0 is left
\* out), ordered by category and, within a category, by non-decreasing t.
C11_MatchingByCategoryThenT ==
    (/\ SearchAnswered
     /\ PlainRadiusAndLimit
     /\ LimitOf(sb_req) >= Len(CorridorRows)) =>
        LET matching == SelectSeq(CorridorRows, LAMBDA r : MatchScore(r) = 1)
            res == sb_resp.rows
        IN  /\ IdsOf(res) = IdsOf(matching)
            /\ DistinctIds(res)
            /\ sb_resp.count = Len(res)
            /\ \A i \in DOMAIN res :
                  \E m \in DOMAIN matching :
                      res[i] = [matching[m] EXCEPT !.category = get_best_category(matching[m])]
            /\ \A i \in DOMAIN res, j \in DOMAIN res :
                  i < j =>
                      \/ CatRank[res[i].category] < CatRank[res[j].category]
                      \/ /\ res[i].category = res[j].category
                         /\ FracLeq(TOf(res[i]), TOf(res[j]))

\* an answer of several categories whose rows are not in order of t, with a
\* candidate of score 0 left out
C11_Witness ==
    /\ SearchAnswered
    /\ PlainRadiusAndLimit
    /\ LimitOf(sb_req) >= Len(CorridorRows)
    /\ Len(sb_resp.rows) >= 2
    /\ ~FracLeq(TOf(sb_resp.rows[1]), TOf(sb_resp.rows[2]))
    /\ \E i \in DOMAIN CorridorRows : MatchScore(CorridorRows[i]) = 0

\* C12 as stated: with limit = 1 and at least one candidate the answer is one
\* row, a candidate of the highest score whose t is closest to 0.5 among
\* the candidates of that score.
C12_Original ==
    (/\ SearchAnswered
     /\ sb_req.radius_km # PyInt(0)
     /\ sb_req.limit = PyInt(1)
     /\ CorridorRows # <<>>) =>
        /\ Len(sb_resp.rows) = 1
        /\ \E m \in DOMAIN CorridorRows :
              /\ sb_resp.rows[1].id = CorridorRows[m].id
              /\ \A k \in DOMAIN CorridorRows :
                    /\ MatchScore(CorridorRows[k]) <= MatchScore(CorridorRows[m])
                    /\ MatchScore(CorridorRows[k]) = MatchScore(CorridorRows[m])
                          => DevFromMiddle(CorridorRows[m]) <= DevFromMiddle(CorridorRows[k])

\* C12 (amended): with limit = 1 and at least one candidate of score 1 the
\* answer is one row: the candidate of score 1 that comes first in the order
\* by category and then t.  With candidates of score 0 only it is empty.
C12_FirstByCategoryThenT ==
    (/\ SearchAnswered
     /\ sb_req.radius_km # PyInt(0)
     /\ sb_req.limit = PyInt(1)) =>
        LET matching == SelectSeq(CorridorRows, LAMBDA r : MatchScore(r) = 1)
            res == sb_resp.rows
        IN  /\ matching = <<>> => (res = <<>> /\ sb_resp.count = 0)
            /\ matching # <<>> =>
                  /\ Len(res) = 1
                  /\ sb_resp.count = 1
                  /\ res[1].id \in IdsOf(matching)
                  /\ \A m \in DOMAIN matching :
                        \/ CatRank[res[1].category] < CatRank[get_best_category(matching[m])]
                        \/ /\ res[1].category = get_best_category(matching[m])
                           /\ FracLeq(TOf(res[1]), TOf(matching[m]))

\* limit = 1 has picked one of several candidates of score 1, and not one
\* whose t is closest to 0.5
C12_Witness ==
    /\ SearchAnswered
    /\ sb_req.radius_km # PyInt(0)
    /\ sb_req.limit = PyInt(1)
    /\ Len(sb_resp.rows) = 1
    /\ \E k \in DOMAIN CorridorRows :
          /\ MatchScore(CorridorRows[k]) = 1
          /\ DevFromMiddle(CorridorRows[k]) < DevFromMiddle(sb_resp.rows[1])

\* C13: a search with radius_km = 0 returns only points at distance zero
\* from the segment.
C13_ZeroRadiusOnSegmentOnly ==
    (SearchAnswered /\ sb_req.radius_km = PyInt(0)) =>
        \A i \in DOMAIN sb_resp.rows :
            point_segment_distance2(parse_coord_from_row(sb_resp.rows[i]), a_coord, b_coord)[1] = 0

\* C14: a search with a limit of 0 or less answers with no rows and count 0,
\* and a search without candidates answers with no rows and count 0, both
\* as a success.
C14_EmptyResults ==
    (sb_pc = "done" /\ store_reads = 1) =>
        /\ (sb_req.limit.type = "int" /\ sb_req.limit.val <= 0) =>
              (sb_resp.status = 200 /\ sb_resp.rows = <<>> /\ sb_resp.count = 0)
        /\ (sb_req.radius_km # PyInt(0) /\ CorridorRows = <<>>) =>
              (sb_resp.status = 200 /\ sb_resp.rows = <<>> /\ sb_resp.count = 0)

\* C15: while a request whose start or end is empty or blank is handled,
\* geocode_address is not called and the attractions table is not read, and
\* the request ends with status 400.
C15_BlankAddressRejectedFirst ==
    (sb_pc # "idle" /\ (StripAddr[sb_req.start] = "" \/ StripAddr[sb_req.end] = "")) =>
        /\ geocode_calls = 0
        /\ store_reads = 0
        /\ sb_pc \in {"validate", "done"}
        /\ sb_pc = "done" => sb_resp.status = 400

\* a request with a blank end and a start that would geocode has been
\* rejected
C15_Witness ==
    /\ sb_pc = "done"
    /\ sb_req.start = "0,0"
    /\ sb_req.end = "  "
    /\ sb_resp.status = 400
    /\ geocode_calls = 0

(***************************************************************************)
(* Claims about optimize_route and the cache store (checked under          *)
(* SpecCache).                                                             *)
(***************************************************************************)
\* the request passes the checks of lines 510 and 525
UsableInput(database, ids) ==
    \E p \in 1..Len(ids) : database[ids[p]].present /\ database[ids[p]].coord # NoCoord

\* C16 as stated: a sequencing request that meets a failing cache store
\* (get_cached or set_cached raises) ends with a server fault.
C16_Original ==
    [][(/\ IsOptimizeStep
        /\ ~table_exists
        /\ UsableInput(db, resp'.req.attraction_ids)) =>
          resp'.status >= 500]_vars

\* C16 (amended): a sequencing request that meets a failing cache store is
\* handled as a cache miss: the answer is computed by the path of its stop
\* count and returned with status 200 (502 only when the provider call
\* fails), and nothing is stored.
C16_CacheFaultIsAMiss ==
    [][(/\ IsOptimizeStep
        /\ ~table_exists
        /\ UsableInput(db, resp'.req.attraction_ids)) =>
          /\ resp'.path \in {"local", "mock", "google"}
          /\ resp'.path = "local" <=>
                NDistinctCoords(db, resp'.req.attraction_ids) > env.max_waypoints
          /\ resp'.status = 200 \/ (resp'.status = 502 /\ resp'.external)
          /\ ~resp'.wrote
          /\ rows' = rows]_vars

\* a request has been answered with status 200 while the table was missing
C16_Witness ==
    /\ resp.op = "optimize"
    /\ ~table_exists
    /\ resp.status = 200
    /\ resp.path \in {"local", "mock", "google"}
    /\ rows = {}

\* the body carries a mark of the path that produced it
Tagged(body) ==
    \/ HasKey(body, "source")
    \/ HasKey(body, "local_optimization")
    \/ HasKey(body, "mock")

\* C17: every successful answer to a sequencing request carries a tag of the
\* path that produced it; an answer served from the cache carries the tag
\* 'cache'.
C17_SourceTag ==
    (resp.op = "optimize" /\ resp.status = 200) =>
        /\ Tagged(resp.body)
        /\ resp.path = "cache" => resp.body.val.source = PyStr("cache")

\* number of distinct requested ids that are in the table
NFound(database, ids) == Cardinality({i \in Range(ids) : database[i].present})

IsPlaceholder(body, req) ==
    /\ HasKey(body, "mock")
    /\ body.val.mock = PyBool(TRUE)
    /\ HasKey(body, "prepared_request")
    /\ HasKey(body.val.prepared_request, "url")
    /\ HasKey(body.val.prepared_request, "params")
    /\ HasKey(body.val.prepared_request.val.params, "origin")
    /\ HasKey(body.val.prepared_request.val.params, "destination")
    /\ HasKey(body, "count")
    /\ body.val.count.val >= NFound(db, req.attraction_ids)

\* the request is within the cap and no API key is configured
MockConditions(req) ==
    /\ ~env.api_key
    /\ UsableInput(db, req.attraction_ids)
    /\ NDistinctCoords(db, req.attraction_ids) <= env.max_waypoints

IsClearDeleteStep == clear_pc = "counted" /\ clear_pc' = "idle"

\* C19: entries do not expire: a step that is not the DELETE of clear_cache
\* leaves every row in the table, unchanged or replaced by the row a
\* set_cached of this step wrote for the same key; get_cached and requests
\* answered without a write leave the table as it is.
C19_NoExpiry ==
    [][IsClearDeleteStep \/
          /\ \A r \in rows :
                \/ r \in rows'
                \/ /\ resp'.wrote
                   /\ resp'.key = r.key
                   /\ \E r2 \in rows' : r2.key = r.key
          /\ ~resp'.wrote => rows' = rows]_vars

\* an entry has survived a set_cached on another key and a read
C19_Witness ==
    /\ Cardinality(rows) >= 2
    /\ resp.op = "get"
    /\ resp.body # PyNone

(***************************************************************************)
(* Claim about two_opt on the unit square (checked under SpecTsp).         *)
(***************************************************************************)
\* the corners of the unit square in perimeter order
UnitSquare == <<<<0, 0>>, <<0, 1>>, <<1, 1>>, <<1, 0>>>>

CrossedTour == <<0, 2, 1, 3>>

\* C20: two_opt called with the crossed tour [0,2,1,3] on the corners of the
\* unit square has the perimeter order [0,1,2,3] or its reverse after its
\* first pass, keeps it in every later pass and returns it.
C20_UncrossesInOneMove ==
    (/\ run = 1
     /\ coords = UnitSquare
     /\ in_order = CrossedTour
     /\ pc \in {"two_opt", "returned"}) =>
        \/ pc = "two_opt" /\ iters = 0 /\ order = CrossedTour
        \/ /\ iters >= 1
           /\ order \in {<<0, 1, 2, 3>>, <<3, 2, 1, 0>>}

\* two_opt has returned from the crossed tour on the unit square
C20_Witness ==
    /\ run = 1
    /\ coords = UnitSquare
    /\ in_order = CrossedTour
    /\ pc = "returned"
    /\ order = <<0, 1, 2, 3>>

(***************************************************************************)
(* Further claims about optimize_route and the cache (SpecCache), and      *)
(* about clear_cache running beside set_cached (SpecStore).                *)
(***************************************************************************)
\* the first requested id that is in the table and lies on coordinate c
FirstAt(database, ids, c) ==
    LET at == {p \in 1..Len(ids) : database[ids[p]].present /\ database[ids[p]].coord = c}
    IN  ids[CHOOSE p \in at : \A q \in at : p <= q]

CoordOfDict(a) == <<a.val.lat.val, a.val.lon.val>>

\* C21: in the answer of the local heuristic, every distinct coordinate of
\* the requested attractions occurs exactly once in orderedAttractions, its
\* attraction is the first one in request order on that coordinate, and
\* count is the number of distinct coordinates.
C21_FirstAttractionPerCoordinate ==
    [][(IsOptimizeStep /\ resp'.path = "local") =>
          LET ids == resp'.req.attraction_ids
              oa == resp'.body.val.orderedAttractions.val
              n == NDistinctCoords(db, ids)
          IN  /\ Len(oa) = n
              /\ resp'.body.val.count = PyInt(n)
              /\ \A p \in DOMAIN oa, q \in DOMAIN oa :
                    CoordOfDict(oa[p]) = CoordOfDict(oa[q]) => p = q
              /\ \A p \in DOMAIN oa :
                    oa[p].val.id = PyStr(FirstAt(db, ids, CoordOfDict(oa[p])))]_vars

\* the heuristic has answered a request of two attractions on one
\* coordinate with the first of them
C21_Witness ==
    /\ resp.op = "optimize"
    /\ resp.path = "local"
    /\ Len(resp.req.attraction_ids) = 2
    /\ resp.req.attraction_ids[1] # resp.req.attraction_ids[2]
    /\ db[resp.req.attraction_ids[1]].coord = db[resp.req.attraction_ids[2]].coord
    /\ db[resp.req.attraction_ids[1]].coord # NoCoord
    /\ Len(resp.body.val.orderedAttractions.val) = 1
    /\ resp.body.val.orderedAttractions.val[1].val.id = PyStr(resp.req.attraction_ids[1])

\* C26: the number clear_cache returns is the number of rows its DELETE
\* removes, also when a set_cached of another request runs between its
\* COUNT and its DELETE.
C26_ClearCountsWhatItDeletes ==
    [][IsClearDeleteStep =>
          /\ before = Cardinality(rows) - Cardinality(rows')
          /\ resp'.body.val.cleared = PyInt(Cardinality(rows) - Cardinality(rows'))]_vars

\* the payload is something `if cached:` takes for a hit
NonEmptyPayload(v) ==
    /\ v.type # "none"
    /\ v.type = "bool" => v.val
    /\ v.type = "int" => v.val # 0
    /\ v.type = "str" => v.val # ""
    /\ v.type \in {"dict", "list", "tuple"} => DOMAIN v.val # {}

\* the table holds an entry under k that the handler serves to a request
\* with n distinct coordinates
ApplicableHit(k, n) ==
    /\ table_exists
    /\ \E r \in rows :
          /\ r.key = k
          /\ NonEmptyPayload(JsonLoads(r.result_json))
          /\ ~(HasKey(JsonLoads(r.result_json), "prepared_request") /\ n > env.max_waypoints)

\* what a hit on payload v is answered with
ServedFromCache(v) ==
    IF v.type = "dict"
    THEN IF "source" \in DOMAIN v.val THEN v
         ELSE PyDict(v.val @@ ("source" :> PyStr("cache")))
    ELSE PyDict([status |-> PyStr("ok"), source |-> PyStr("cache"), result |-> v])

IdsOfDicts(ds) == [p \in DOMAIN ds |-> ds[p].val.id.val]

\* the stops in the provider's order: per coordinate sent, its first
\* attraction
StopsInProviderOrder(database, req, waypoint_order) ==
    LET found == FoundAttractions(database, req.attraction_ids)
        crds == DedupeCoords(database, found, [seen |-> {}, coords |-> <<>>, map |-> <<>>]).coords
        reps == [p \in DOMAIN crds |-> FirstAt(database, req.attraction_ids, crds[p])]
        inter == Intermediate(reps, req)
    IN  IF waypoint_order = <<>> THEN reps
        ELSE (IF req.departure = <<>> THEN <<reps[1]>> ELSE <<>>)
                 \o [p \in DOMAIN waypoint_order |-> inter[waypoint_order[p].val + 1]]
                 \o (IF req.arrival = <<>> THEN <<reps[Len(reps)]>> ELSE <<>>)

\* C28: in an answer of the provider path, orderedAttractions holds each
\* attraction whose coordinate was sent exactly once, the intermediate
\* stops in the order the provider gave.
C28_ProviderOrderOnSentStops ==
    (resp.op = "optimize" /\ resp.path = "google" /\ resp.status = 200) =>
        LET routes == resp.body.val.routes.val
            waypoint_order == IF routes = <<>> THEN <<>> ELSE routes[1].val.waypoint_order.val
        IN  IdsOfDicts(resp.body.val.orderedAttractions.val)
                = StopsInProviderOrder(db, resp.req, waypoint_order)

\* C29: a request whose provider call fails ends with status 502 and leaves
\* the table and its rows as they were.
C29_ProviderFailureLeavesCache ==
    [][(IsOptimizeStep /\ resp'.external /\ resp'.body = PyNone) =>
          /\ resp'.status = 502
          /\ ~resp'.wrote
          /\ rows' = rows
          /\ last_set' = last_set]_vars

\* a provider call has failed while the table held an entry under the
\* request's key
C29_Witness ==
    /\ resp.op = "optimize"
    /\ resp.status = 502
    /\ \E r \in rows : r.key = resp.key

(***************************************************************************)
(* Termination and frame of two_opt (SpecTspFair, SpecTsp).                *)
(***************************************************************************)
\* the pairs of tour positions the nested loops visit
PairsOf(ord) == {pr \in (0..(Len(ord) - 3)) \X (2..(Len(ord) - 2)) : pr[2] >= pr[1] + 2}

ImprovingPairs(ord, cs) == {pr \in PairsOf(ord) : Delta(ord, cs, pr[1], pr[2]) < -EPS}

\* (a, b) comes before (c, d) in the order of the loops
VisitedBefore(p, q) == p[1] < q[1] \/ (p[1] = q[1] /\ p[2] <= q[2])

IsPassStep == pc = "two_opt" /\ pc' = "two_opt" /\ iters' # iters

IsReturnStep == pc = "two_opt" /\ pc' = "returned"

\* C24: two_opt terminates; it makes at most max_iters passes, a pass
\* reverses the slice of the first pair with delta < -1e-6 and nothing else,
\* or changes nothing when there is no such pair, and the loop is left at
\* the first pass without an improving pair or after max_iters passes.
C24_TwoOptTerminates ==
    /\ [][IsPassStep =>
            /\ improved
            /\ iters' = iters + 1
            /\ iters' <= max_iters
            /\ IF ImprovingPairs(order, coords) = {}
               THEN order' = order /\ ~improved'
               ELSE LET first == CHOOSE p \in ImprovingPairs(order, coords) :
                                    \A q \in ImprovingPairs(order, coords) : VisitedBefore(p, q)
                    IN  /\ order' = ReverseSlice(order, first[1] + 1, first[2])
                        /\ improved']_vars
    /\ [][IsReturnStep => (~improved \/ iters = max_iters) /\ order' = order]_vars
    /\ [](pc = "two_opt" => iters <= max_iters)
    /\ (pc = "two_opt") ~> (pc = "returned")

\* a run has made one reversal and stopped at its second pass, which found
\* no improving pair
C24_Witness ==
    /\ pc = "returned"
    /\ run = 1
    /\ iters = 2
    /\ ~improved
    /\ order # in_order

TimesIn(s, e) == Cardinality({p \in DOMAIN s : s[p] = e})

\* C25: in every state of the loop of two_opt and in its result the tour
\* holds the elements of the input tour, each as often as there; its first
\* and its last element stay where they were, and a tour of fewer than 4
\* elements is returned as it was.
C25_TourStaysAPermutation ==
    (pc \in {"two_opt", "returned"} /\ run >= 1) =>
        /\ Len(order) = Len(in_order)
        /\ \A e \in 0..(MaxN - 1) : TimesIn(order, e) = TimesIn(in_order, e)
        /\ order # <<>> => order[1] = in_order[1] /\ order[Len(order)] = in_order[Len(order)]
        /\ Len(in_order) < 4 => order = in_order

\* two_opt has returned a tour of the largest size that differs from its input
C25_Witness ==
    /\ pc = "returned"
    /\ run = 1
    /\ Len(order) = MaxN
    /\ order # in_order

(***************************************************************************)
(* Claims about the two segment functions (checked under SpecGeom).        *)
(* Points are compared in the local plane the functions work in.           *)
(***************************************************************************)
Dot(u, v) == u[1] * v[1] + u[2] * v[2]

Cross(u, v) == u[1] * v[2] - u[2] * v[1]

\* squared distance of the plane images of two points
PlaneDist2(x, y) == Dot(to_xy(x, y), to_xy(x, y))

\* the plane image of x lies on the line through a and b
OnLine(x, a, b) == Cross(to_xy(x, a), to_xy(b, a)) = 0

\* the unclamped projection parameter of x, times vlen2
RawT(x, a, b) == Dot(to_xy(x, a), to_xy(b, a))

FracEq(f, n) == f[1] = n * f[2]

C23_ProjectionFractionCases ==
    (g_pc = "projected") =>
        /\ g_t[2] > 0 /\ g_t[1] >= 0 /\ g_t[1] <= g_t[2]
        /\ g_p = g_a => g_t[1] = 0
        /\ (g_p = g_b /\ g_a # g_b) => g_t[1] = g_t[2]
        /\ g_a = g_b => g_t[1] = 0
        /\ (/\ g_a # g_b
            /\ OnLine(g_p, g_a, g_b)
            /\ OnLine(g_q, g_a, g_b)
            /\ Dot(to_xy(g_q, g_p), to_xy(g_b, g_a)) >= 0)
               => g_t[1] * g_tq[2] <= g_tq[1] * g_t[2]

\* p lies inside the segment and q on the line beyond b: the fraction of p
\* is strictly between 0 and 1 and that of q is 1
C23_Witness ==
    /\ g_pc = "projected"
    /\ g_a # g_b
    /\ OnLine(g_p, g_a, g_b)
    /\ OnLine(g_q, g_a, g_b)
    /\ RawT(g_q, g_a, g_b) > PlaneDist2(g_b, g_a)
    /\ g_t[1] > 0
    /\ g_t[1] < g_t[2]
    /\ g_tq[1] = g_tq[2]

====
